---------------------------- MODULE Spec2Model ----------------------------
(***************************************************************************)
(* A model of c10::KernelFunction (ATen/core/dispatch/KernelFunction.h):   *)
(* the type-erased kernel wrapper, its construction factories, its three   *)
(* call entry points, the lazy construction of the kernel functor and the  *)
(* signature hash used to check unboxed calls.                             *)
(***************************************************************************)
EXTENDS Integers, Sequences, FiniteSets, TLC

(***************************************************************************)
(* Bounds of the model.                                                    *)
(***************************************************************************)
\* Number of threads that call into one wrapper.
NumThreads == 2
\* Total number of calls started on the wrapper.
MaxCalls == 2
\* Argument and stack values are drawn from 1..MaxArg.
MaxArg == 2
\* Longest generic argument stack handed to callBoxed.
MaxStack == 3

Threads == 1..NumThreads
ArgVals == 1..MaxArg

(***************************************************************************)
(* uint64_t arithmetic.  A uint64_t is a tuple of eight base-256 limbs,    *)
(* least significant first, so that sums and products are taken modulo     *)
(* 2^64 as the C++ unsigned arithmetic does.                               *)
(***************************************************************************)
LimbBase == 256

Pow256 == <<1, 256, 65536, 16777216>>

\* The uint64_t with value n, for a natural n below 2^31.
U64(n) ==
  <<n % LimbBase, (n \div Pow256[2]) % LimbBase, (n \div Pow256[3]) % LimbBase,
    (n \div Pow256[4]) % LimbBase, 0, 0, 0, 0>>

\* a + b in uint64_t: limb by limb with carry, the carry out of the top dropped.
AddU64(a, b) ==
  LET s1 == a[1] + b[1]
      s2 == a[2] + b[2] + s1 \div LimbBase
      s3 == a[3] + b[3] + s2 \div LimbBase
      s4 == a[4] + b[4] + s3 \div LimbBase
      s5 == a[5] + b[5] + s4 \div LimbBase
      s6 == a[6] + b[6] + s5 \div LimbBase
      s7 == a[7] + b[7] + s6 \div LimbBase
      s8 == a[8] + b[8] + s7 \div LimbBase
  IN  <<s1 % LimbBase, s2 % LimbBase, s3 % LimbBase, s4 % LimbBase,
        s5 % LimbBase, s6 % LimbBase, s7 % LimbBase, s8 % LimbBase>>

\* The sum of a[i] * b[k + 1 - i] for i in 1..k: the limb products of weight k.
Column(a, b, k) ==
    (IF k >= 1 THEN a[1] * b[k] ELSE 0)
  + (IF k >= 2 THEN a[2] * b[k - 1] ELSE 0)
  + (IF k >= 3 THEN a[3] * b[k - 2] ELSE 0)
  + (IF k >= 4 THEN a[4] * b[k - 3] ELSE 0)
  + (IF k >= 5 THEN a[5] * b[k - 4] ELSE 0)
  + (IF k >= 6 THEN a[6] * b[k - 5] ELSE 0)
  + (IF k >= 7 THEN a[7] * b[k - 6] ELSE 0)
  + (IF k >= 8 THEN a[8] * b[k - 7] ELSE 0)

\* a * b in uint64_t: schoolbook product, the limbs above the top dropped.
MulU64(a, b) ==
  LET s1 == Column(a, b, 1)
      s2 == Column(a, b, 2) + s1 \div LimbBase
      s3 == Column(a, b, 3) + s2 \div LimbBase
      s4 == Column(a, b, 4) + s3 \div LimbBase
      s5 == Column(a, b, 5) + s4 \div LimbBase
      s6 == Column(a, b, 6) + s5 \div LimbBase
      s7 == Column(a, b, 7) + s6 \div LimbBase
      s8 == Column(a, b, 8) + s7 \div LimbBase
  IN  <<s1 % LimbBase, s2 % LimbBase, s3 % LimbBase, s4 % LimbBase,
        s5 % LimbBase, s6 % LimbBase, s7 % LimbBase, s8 % LimbBase>>

(***************************************************************************)
(* Types and function signatures.  A type is a base type with its          *)
(* reference kind and the const/volatile qualifiers of the referred type.  *)
(***************************************************************************)
Ty(base, ref, c, v) == [base |-> base, ref |-> ref, const |-> c, volatile |-> v]

TInt     == Ty("int", "none", FALSE, FALSE)
TVoid    == Ty("void", "none", FALSE, FALSE)
TIntRef  == Ty("int", "lvalue", FALSE, FALSE)
TIntCRef == Ty("int", "lvalue", TRUE, FALSE)
TIntRRef == Ty("int", "rvalue", FALSE, FALSE)

\* typeid(Type).hash_code(): unspecified, equal for equal types, and blind to
\* references and top-level cv-qualifiers.  The values are those of one build.
TypeIdHash(base) ==
  CASE base = "int"  -> <<239, 205, 171, 137, 103, 69, 35, 193>>
    [] base = "void" -> <<17, 50, 83, 116, 149, 182, 215, 58>>

BoolInt(b) == IF b THEN 1 ELSE 0

\* hashType with one weight for const and volatile alike.
hashType_SameWeight(type) ==
  AddU64(AddU64(AddU64(AddU64(
    TypeIdHash(type.base),
    U64(1000 * BoolInt(type.ref = "lvalue"))),
    U64(5000 * BoolInt(type.ref = "rvalue"))),
    U64(10000 * BoolInt(type.const))),
    U64(10000 * BoolInt(type.volatile)))

hashType(type) ==
  AddU64(AddU64(AddU64(AddU64(
    TypeIdHash(type.base),
    U64(1000 * BoolInt(type.ref = "lvalue"))),
    U64(5000 * BoolInt(type.ref = "rvalue"))),
    U64(10000 * BoolInt(type.const))),
    U64(15000 * BoolInt(type.volatile)))

\* hashTypeList_ passing its index on unchanged to the tail.
RECURSIVE hashTypeList__SameIndex(_, _)
hashTypeList__SameIndex(typelist, index) ==
  IF typelist = <<>>
  THEN U64(0)
  ELSE AddU64(MulU64(MulU64(U64(1000000), U64(index)), hashType(Head(typelist))),
              hashTypeList__SameIndex(Tail(typelist), index))

RECURSIVE hashTypeList_(_, _)
hashTypeList_(typelist, index) ==
  IF typelist = <<>>
  THEN U64(0)
  ELSE AddU64(MulU64(MulU64(U64(1000000), U64(index)), hashType(Head(typelist))),
              hashTypeList_(Tail(typelist), index + 1))

hashTypeList(typelist) == hashTypeList_(typelist, 1)

Sig(ret, params) == [ret |-> ret, params |-> params]

\* hashFunctionSignature<FuncSignature>() as the translation unit that
\* instantiates it compiles it: with __CUDACC__ defined it returns 0.
hashFunctionSignature(cudacc, sig) ==
  IF cudacc THEN U64(0) ELSE hashTypeList(<<sig.ret>> \o sig.params)

\* Whether a translation unit is compiled with __CUDACC__ defined.
TranslationUnits == BOOLEAN

(***************************************************************************)
(* Kernels handed to the factories.  A kernel functor has a call signature *)
(* and a call operator; a boxed function works on the argument stack.      *)
(***************************************************************************)
Functors == {"Sum", "Noop", "AddTo"}
\* Functors whose argument types the boxing adapter can represent.
BoxableFunctors == {"Sum", "Noop"}
BoxedFunctions == {"Double", "Discard", "Stray", "Pack"}

FunctorSig(F) ==
  CASE F = "Sum"   -> Sig(TInt, <<TInt, TInt>>)
    [] F = "Noop"  -> Sig(TVoid, <<TInt>>)
    [] F = "AddTo" -> Sig(TIntRef, <<TIntRef, TInt>>)

\* The functor's call operator: the returned values (none for void).
FunctorCall(F, args) ==
  CASE F = "Sum"   -> <<args[1] + args[2]>>
    [] F = "Noop"  -> <<>>
    [] F = "AddTo" -> <<args[1] + args[2]>>

Front(s) == SubSeq(s, 1, Len(s) - 1)
Last(s) == s[Len(s)]

\* The number of stack values a boxed function reads.
BoxedFunctionArity(f) == IF f = "Pack" THEN 2 ELSE 1

\* A boxed function: the stack it leaves.  Double replaces the top value by
\* its double, Discard pops the top value and returns nothing, Stray pushes
\* a value without popping its argument, Pack replaces the two top values
\* a, b (b on top) by 10 * a + b.
BoxedFunctionCall(f, stack) ==
  CASE f = "Double"  -> Front(stack) \o <<2 * Last(stack)>>
    [] f = "Discard" -> Front(stack)
    [] f = "Stray"   -> stack \o <<Last(stack)>>
    [] f = "Pack"    -> Front(Front(stack)) \o <<10 * Last(Front(stack)) + Last(stack)>>

\* Entries.  A null function pointer, a boxed function, or an adapter
\* generated for a functor type.
Entry(adapter, kernel) == [adapter |-> adapter, kernel |-> kernel]
nullptr == Entry("nullptr", "nullptr")
BoxedFunctionPtr(f) == Entry("boxed_function", f)
wrap_kernel_functor_boxed(F) == Entry("wrap_kernel_functor_boxed", F)
wrap_kernel_functor_unboxed(F) == Entry("wrap_kernel_functor_unboxed", F)

\* c10::nullopt for signature_hash_.
nullopt == <<>>

\* functorCreator_: empty, or a closure that makes a functor on each call
\* (std::make_shared), or a closure that returns an empty shared_ptr.
NoCreator == "empty"
Creators == {"make_shared", "returns_null"}

\* A functor instance is named by a positive number; NullFunctor is nullptr.
NullFunctor == 0

(***************************************************************************)
(* The constructors and factories: the five data members each one sets.    *)
(***************************************************************************)
KernelFunction(functorCreator, functor, boxed_kernel_func, unboxed_kernel_func, signature_hash) ==
  [functorCreator_ |-> functorCreator,
   functor_ |-> functor,
   boxed_kernel_func_ |-> boxed_kernel_func,
   unboxed_kernel_func_ |-> unboxed_kernel_func,
   signature_hash_ |-> signature_hash]

KernelFunctionDefault ==
  KernelFunction(NoCreator, NullFunctor, nullptr, nullptr, nullopt)

\* makeFromBoxedFunction recording a signature hash, as the typed factories do.
makeFromBoxedFunction_Hashed(func) ==
  [functorCreator_ |-> "empty",
   functor_ |-> 0,
   boxed_kernel_func_ |-> [adapter |-> "boxed_function", kernel |-> func],
   unboxed_kernel_func_ |-> [adapter |-> "nullptr", kernel |-> "nullptr"],
   signature_hash_ |-> hashFunctionSignature(FALSE, Sig(TInt, <<TInt>>))]

makeFromBoxedFunction(func) ==
  KernelFunction(NoCreator, NullFunctor, BoxedFunctionPtr(func), nullptr, nullopt)

\* makeFromUnboxedFunctor pairing the unboxed entry of the functor with the
\* boxed entry of another functor type.
makeFromUnboxedFunctor_OtherBoxed(F, kernelFunctor, cudacc) ==
  [functorCreator_ |-> "empty",
   functor_ |-> kernelFunctor,
   boxed_kernel_func_ |-> [adapter |-> "wrap_kernel_functor_boxed", kernel |-> "Noop"],
   unboxed_kernel_func_ |-> [adapter |-> "wrap_kernel_functor_unboxed", kernel |-> F],
   signature_hash_ |-> hashFunctionSignature(cudacc, FunctorSig(F))]

makeFromUnboxedFunctor(F, kernelFunctor, cudacc) ==
  KernelFunction(NoCreator, kernelFunctor, wrap_kernel_functor_boxed(F),
                 wrap_kernel_functor_unboxed(F),
                 hashFunctionSignature(cudacc, FunctorSig(F)))

makeFromUnboxedFunctorCreator(F, kernelFunctorCreator, cudacc) ==
  KernelFunction(kernelFunctorCreator, NullFunctor, wrap_kernel_functor_boxed(F),
                 wrap_kernel_functor_unboxed(F),
                 hashFunctionSignature(cudacc, FunctorSig(F)))

\* makeFromUnboxedOnlyFunctor recording no signature hash.
makeFromUnboxedOnlyFunctor_NoHash(F, kernelFunctor, cudacc) ==
  [functorCreator_ |-> "empty",
   functor_ |-> kernelFunctor,
   boxed_kernel_func_ |-> [adapter |-> "nullptr", kernel |-> "nullptr"],
   unboxed_kernel_func_ |-> [adapter |-> "wrap_kernel_functor_unboxed", kernel |-> F],
   signature_hash_ |-> <<>>]

makeFromUnboxedOnlyFunctor(F, kernelFunctor, cudacc) ==
  KernelFunction(NoCreator, kernelFunctor, nullptr,
                 wrap_kernel_functor_unboxed(F),
                 hashFunctionSignature(cudacc, FunctorSig(F)))

makeFromUnboxedFunction(F, kernelFunctor, cudacc) ==
  makeFromUnboxedFunctor(F, kernelFunctor, cudacc)

makeFromUnboxedOnlyFunction(F, kernelFunctor, cudacc) ==
  makeFromUnboxedOnlyFunctor(F, kernelFunctor, cudacc)

makeFromUnboxedRuntimeFunction(F, kernelFunctor, cudacc) ==
  makeFromUnboxedFunctor(F, kernelFunctor, cudacc)

makeFromUnboxedLambda(F, kernelFunctor, cudacc) ==
  makeFromUnboxedFunctor(F, kernelFunctor, cudacc)

\* The functor instance an eager factory is handed: the first one allocated.
EagerFunctor == 1

EagerFactories ==
  {"makeFromUnboxedFunctor", "makeFromUnboxedFunction",
   "makeFromUnboxedRuntimeFunction", "makeFromUnboxedLambda"}
UnboxedOnlyFactories == {"makeFromUnboxedOnlyFunctor", "makeFromUnboxedOnlyFunction"}

\* The factories that are handed the functor by their caller, who may hand
\* them an empty shared_ptr; the others make the functor themselves.
FunctorFactories == {"makeFromUnboxedFunctor", "makeFromUnboxedOnlyFunctor"}

\* The wrapper a factory call returns.
Make(factory, kernel, creator, functor, cudacc) ==
  CASE factory = "KernelFunction" -> KernelFunctionDefault
    [] factory = "makeFromBoxedFunction" -> makeFromBoxedFunction(kernel)
    [] factory = "makeFromUnboxedFunctor" -> makeFromUnboxedFunctor(kernel, functor, cudacc)
    [] factory = "makeFromUnboxedFunctorCreator" ->
         makeFromUnboxedFunctorCreator(kernel, creator, cudacc)
    [] factory = "makeFromUnboxedOnlyFunctor" ->
         makeFromUnboxedOnlyFunctor(kernel, functor, cudacc)
    [] factory = "makeFromUnboxedFunction" ->
         makeFromUnboxedFunction(kernel, EagerFunctor, cudacc)
    [] factory = "makeFromUnboxedOnlyFunction" ->
         makeFromUnboxedOnlyFunction(kernel, EagerFunctor, cudacc)
    [] factory = "makeFromUnboxedRuntimeFunction" ->
         makeFromUnboxedRuntimeFunction(kernel, EagerFunctor, cudacc)
    [] factory = "makeFromUnboxedLambda" ->
         makeFromUnboxedLambda(kernel, EagerFunctor, cudacc)

\* The functors a factory call may be handed.
HandedFunctors(factory) ==
  IF factory \in FunctorFactories THEN {EagerFunctor, NullFunctor} ELSE {EagerFunctor}

\* The factory calls of the model: factory, kernel, creator closure, functor
\* handed over, and the translation unit the call is compiled in.
Constructions ==
       {<<"KernelFunction", "nullptr", NoCreator, NullFunctor, FALSE>>}
  \cup {<<"makeFromBoxedFunction", f, NoCreator, NullFunctor, FALSE>> : f \in BoxedFunctions}
  \cup UNION {{<<m, F, NoCreator, k, u>> :
                 F \in BoxableFunctors, k \in HandedFunctors(m), u \in TranslationUnits} :
               m \in EagerFactories}
  \cup {<<"makeFromUnboxedFunctorCreator", F, c, NullFunctor, u>> :
          F \in BoxableFunctors, c \in Creators, u \in TranslationUnits}
  \cup UNION {{<<m, F, NoCreator, k, u>> :
                 F \in Functors, k \in HandedFunctors(m), u \in TranslationUnits} :
               m \in UnboxedOnlyFactories}

\* The wrappers the factory calls return, computed once.
Built == [c \in Constructions |-> Make(c[1], c[2], c[3], c[4], c[5])]

(***************************************************************************)
(* Calls.  A typed call declares its signature Return (Args...) and passes *)
(* one value per declared argument; a boxed call passes a stack.           *)
(***************************************************************************)
\* Tuples of length n over vals.
SeqsOfLen(vals, n) == [1..n -> vals]

SigSum     == Sig(TInt, <<TInt, TInt>>)
SigUnary   == Sig(TInt, <<TInt>>)
SigVoid    == Sig(TVoid, <<TInt>>)
SigAddTo   == Sig(TIntRef, <<TIntRef, TInt>>)
SigSwapped == Sig(TInt, <<TInt, TIntRef>>)

DeclaredSigs == {SigSum, SigUnary, SigVoid, SigAddTo, SigSwapped}

\* int with every combination of reference, const and volatile.
QualifiedInts ==
  {Ty("int", r, c, v) : r \in {"none", "lvalue", "rvalue"}, c \in BOOLEAN, v \in BOOLEAN}
\* Signatures over the qualified types, with at most one parameter.
QualifiedSigs ==
  {Sig(r, p) : r \in QualifiedInts \cup {TVoid},
               p \in SeqsOfLen(QualifiedInts, 0) \cup SeqsOfLen(QualifiedInts, 1)}
\* callBoxed declares no signature.
NoSig == Sig(TVoid, <<>>)

\* The signature hashes, computed once.
SigHash ==
  [u \in TranslationUnits |->
     [s \in DeclaredSigs \cup QualifiedSigs |-> hashFunctionSignature(u, s)]]

\* Argument stacks over the values vals.
Stacks(vals) == UNION {SeqsOfLen(vals, n) : n \in 0..MaxStack}

Ops == {"isValid", "callBoxed", "callUnboxed", "callUnboxedOnly"}
\* The operations that declare no signature.
UntypedOps == {"isValid", "callBoxed"}

\* The diagnostics of the fatal assertions.
ErrBoxedUninitialized ==
  "Tried to call KernelFunction::callBoxed() on an uninitizliaed KernelFunction."
ErrBoxedUnsupported ==
  "Tried to call KernelFunction::callBoxed() on a KernelFunction that can only be called with KernelFunction::callUnboxed()."
ErrWrongTypes == "Called KernelFunction::callUnboxed with wrong argument types"
ErrNoUnboxed ==
  "Tried to call KernelFunction::callUnboxedOnly() for a kernel that doesn't have an unboxed version."
ErrUnboxedUninitialized ==
  "Tried to call KernelFunction::callUnboxed() on an uninitialized KernelFunction."
ErrBridgeOneReturn == "A boxed kernel should only push one return to the stack"
ErrBridgeVoidReturn ==
  "A boxed kernel returned a value but when we called it with KernelFunction::callUnboxed, we expected it to return void."
NoError == ""

(***************************************************************************)
(* quantized::conv2d, the kernel QConv2dInt8 of qconv.cpp.  A tensor is    *)
(* modelled by its sizes, a packed weight by its kernel sizes, its         *)
(* quantization scheme, the lengths of its scale and zero point vectors    *)
(* and the sizes of its optional bias.                                     *)
(***************************************************************************)
MaxDim == 2     \* input heights and widths are 1..MaxDim
MaxKernel == 2  \* kernel heights and widths are 1..MaxKernel
MaxStride == 2  \* strides are 1..MaxStride
MaxPad == 1     \* paddings are 0..MaxPad

BatchSize == 1
OutputChannels == 2
InputChannels == 1

\* operator/ on integers: the quotient is truncated towards zero (b > 0).
TruncDiv(a, b) == IF a >= 0 THEN a \div b ELSE -((-a) \div b)

\* std::floor of an integer that was converted to double: the integer.
std_floor(i) == i

\* kernel, stride, padding and dilation are indexed from 1 here, from 0 in
\* the source.
convOutputShape(N, K, H, W, kernel, stride, padding, dilation) ==
  LET H_out == std_floor(TruncDiv(H + 2 * padding[1] - dilation[1] * (kernel[1] - 1) - 1, stride[1]) + 1)
      W_out == std_floor(TruncDiv(W + 2 * padding[2] - dilation[2] * (kernel[2] - 1) - 1, stride[2]) + 1)
  IN <<N, K, H_out, W_out>>

kPerTensorAffine == "kPerTensorAffine"
kPerChannelAffine == "kPerChannelAffine"
kPerTensorSymmetric == "kPerTensorSymmetric"
QSchemes == {kPerTensorAffine, kPerChannelAffine, kPerTensorSymmetric}

NoTensor == <<>>
\* pack_ptr.bias: nullopt, or the sizes of the bias tensor.
Biases == {nullopt, <<OutputChannels>>, <<OutputChannels + 1>>, <<1, OutputChannels>>}

ErrNoFbgemm == "This PyTorch installation was not built with FBGEMM operators"
ErrCpu == "Your CPU does not support FBGEMM."
ErrNdimension == "Activations are supposed to have 4 dimensions."
ErrDilation == "Currently dilation should be 1"
ErrChannels == "[QConv2D] Given groups=, weight of size , expected input (NCHW) to have channels, but got channels instead"
ErrScheme == "Unsupported quantization scheme."
ErrBiasVector == "bias should be a vector (1D Tensor)"
ErrBiasElements == "bias should have K elements: "
ErrScales == "Weight scales and zero points vectors should have the same size."
ErrOutputShape == "[QConv2D] each dimension of output tensor should be greater than 0"

\* The number of weight scales a packed weight of a scheme carries.
ScalesOf(q_scheme) == IF q_scheme = kPerChannelAffine THEN OutputChannels ELSE 1

\* Calls that pass every check on the build, the processor, the ranks and
\* the channels: all shapes, schemes and biases.
WellFormedCalls ==
  { [USE_FBGEMM |-> TRUE, fbgemmSupportedCPU |-> TRUE, ndimension |-> 4,
     C |-> InputChannels, dilation |-> <<1, 1>>, w_scale |-> ScalesOf(q), w_zp |-> ScalesOf(q),
     H |-> hw[1], W |-> hw[2], kernel |-> k, stride |-> s, padding |-> p,
     q_scheme |-> q, bias |-> b] :
     hw \in (1..MaxDim) \X (1..MaxDim), k \in (1..MaxKernel) \X (1..MaxKernel),
     s \in (1..MaxStride) \X (1..MaxStride), p \in (0..MaxPad) \X (0..MaxPad),
     q \in QSchemes, b \in Biases }

\* Calls on one shape with every combination of the other arguments.
IllFormedCalls ==
  { [USE_FBGEMM |-> f[1], fbgemmSupportedCPU |-> f[2], ndimension |-> n,
     C |-> c, dilation |-> d, w_scale |-> ScalesOf(q), w_zp |-> z,
     H |-> 1, W |-> 1, kernel |-> <<1, 1>>, stride |-> <<1, 1>>, padding |-> <<0, 0>>,
     q_scheme |-> q, bias |-> nullopt] :
     f \in BOOLEAN \X BOOLEAN, n \in {3, 4}, c \in {InputChannels, InputChannels + 1},
     d \in {1, 2} \X {1, 2}, z \in {1, OutputChannels}, q \in QSchemes }

ConvCalls == WellFormedCalls \cup IllFormedCalls

NoCall == [USE_FBGEMM |-> FALSE]

\* No call of the kernel has been made.
ConvIdle ==
  [pc |-> "idle", call |-> NoCall, bias_ptr |-> FALSE, outShape |-> <<>>,
   output |-> NoTensor, convolved |-> FALSE, err |-> NoError]

VARIABLES
  functorCreator_,       \* the deferred factory, or NoCreator
  functor_,              \* the kernel functor instance, or NullFunctor
  boxed_kernel_func_,    \* the boxed entry, or nullptr
  unboxed_kernel_func_,  \* the unboxed entry, or nullptr
  signature_hash_,       \* the signature fingerprint, or nullopt
  th,                    \* per thread: the call it is in and where it stands
  started,               \* number of calls started
  creatorCalls,          \* number of invocations of functorCreator_
  allocated,             \* number of functor instances constructed so far
  released,              \* functor instances whose last owner let go
  passed,                \* receivers handed to a kernel entry so far
  invocations,           \* number of calls of a kernel entry so far
  conv                   \* the call of quantized::conv2d and where it stands

wrapper == <<functorCreator_, boxed_kernel_func_, unboxed_kernel_func_, signature_hash_>>
ghosts == <<started, creatorCalls, allocated, released, passed, invocations>>
vars == <<functorCreator_, functor_, boxed_kernel_func_, unboxed_kernel_func_,
          signature_hash_, th, started, creatorCalls, allocated, released, passed,
          invocations, conv>>

\* A thread outside any call.
Idle ==
  [pc |-> "idle", op |-> "none", sig |-> NoSig, args |-> <<>>, path |-> "none",
   created |-> NullFunctor, recv |-> NullFunctor, invoked |-> 0, entry |-> nullptr,
   stack |-> <<>>, ub |-> FALSE, err |-> NoError, cudacc |-> FALSE, left |-> <<>>,
   valid |-> FALSE, hash |-> nullopt]

Init ==
  /\ \E c \in Constructions :
       LET kf == Built[c] IN
         /\ functorCreator_ = kf.functorCreator_
         /\ functor_ = kf.functor_
         /\ boxed_kernel_func_ = kf.boxed_kernel_func_
         /\ unboxed_kernel_func_ = kf.unboxed_kernel_func_
         /\ signature_hash_ = kf.signature_hash_
         /\ allocated = IF kf.functor_ = NullFunctor THEN 0 ELSE 1
  /\ th = [t \in Threads |-> Idle]
  /\ started = 0
  /\ creatorCalls = 0
  /\ released = {}
  /\ passed = {}
  /\ invocations = 0
  /\ conv = ConvIdle

\* The wrapper is one that a call of one of the factories returns (functor_
\* aside, which a deferred wrapper fills in later).
BuiltBy(factories) ==
  \E c \in Constructions :
    /\ c[1] \in factories
    /\ functorCreator_ = Built[c].functorCreator_
    /\ boxed_kernel_func_ = Built[c].boxed_kernel_func_
    /\ unboxed_kernel_func_ = Built[c].unboxed_kernel_func_
    /\ signature_hash_ = Built[c].signature_hash_

\* isValid() testing the boxed entry only.
isValid_BoxedOnly == boxed_kernel_func_ # nullptr

isValid == boxed_kernel_func_ # nullptr \/ unboxed_kernel_func_ # nullptr

\* The signature assertion of callUnboxed and callUnboxedOnly.
SignatureAccepted(call) ==
  signature_hash_ = nullopt \/ call.hash = signature_hash_

\* A call that fails an assertion before it resolves the functor.
Failed(call, err) == [call EXCEPT !.pc = "failed", !.err = err]
\* A call that goes on to getFunctor_() and then into the entry of `path`.
Resolving(call, path) == [call EXCEPT !.pc = "gf_check", !.path = path]

\* callBoxed with one diagnostic for both kinds of missing boxed entry.
callBoxed_OneDiagnostic(call) ==
  IF boxed_kernel_func_ = nullptr
  THEN Failed(call, ErrBoxedUninitialized)
  ELSE Resolving(call, "boxed")

\* callBoxed(stack) up to its call of getFunctor_().
callBoxed(call) ==
  IF boxed_kernel_func_ = nullptr
  THEN IF unboxed_kernel_func_ = nullptr
       THEN Failed(call, ErrBoxedUninitialized)
       ELSE Failed(call, ErrBoxedUnsupported)
  ELSE Resolving(call, "boxed")

\* callUnboxedOnly falling back to the boxed entry as callUnboxed does.
callUnboxedOnly_Bridges(call) ==
  IF ~SignatureAccepted(call)
  THEN Failed(call, ErrWrongTypes)
  ELSE IF unboxed_kernel_func_ # nullptr
       THEN Resolving(call, "unboxed")
       ELSE IF boxed_kernel_func_ = nullptr
            THEN Failed(call, ErrNoUnboxed)
            ELSE Resolving(call, "bridge")

\* callUnboxedOnly telling an uninitialized wrapper from one without an
\* unboxed entry.
callUnboxedOnly_Distinguishes(call) ==
  IF ~SignatureAccepted(call)
  THEN Failed(call, ErrWrongTypes)
  ELSE IF unboxed_kernel_func_ # nullptr
       THEN Resolving(call, "unboxed")
       ELSE IF boxed_kernel_func_ = nullptr
            THEN Failed(call, ErrUnboxedUninitialized)
            ELSE Failed(call, ErrNoUnboxed)

\* callUnboxedOnly without the signature assertion.
callUnboxedOnly_Unchecked(call) ==
  IF unboxed_kernel_func_ # nullptr
  THEN Resolving(call, "unboxed")
  ELSE Failed(call, ErrNoUnboxed)

\* callUnboxedOnly<Return, Args...>(args...) up to its call of getFunctor_().
callUnboxedOnly(call) ==
  IF ~SignatureAccepted(call)
  THEN Failed(call, ErrWrongTypes)
  ELSE IF unboxed_kernel_func_ # nullptr
       THEN Resolving(call, "unboxed")
       ELSE Failed(call, ErrNoUnboxed)

\* callUnboxed trying the boxed entry before the unboxed one.
callUnboxed_BoxedFirst(call) ==
  IF ~SignatureAccepted(call)
  THEN Failed(call, ErrWrongTypes)
  ELSE IF boxed_kernel_func_ # nullptr
       THEN Resolving(call, "bridge")
       ELSE IF unboxed_kernel_func_ = nullptr
            THEN Failed(call, ErrUnboxedUninitialized)
            ELSE Resolving(call, "unboxed")

\* callUnboxed<Return, Args...>(args...) up to its call of getFunctor_().
callUnboxed(call) ==
  IF ~SignatureAccepted(call)
  THEN Failed(call, ErrWrongTypes)
  ELSE IF unboxed_kernel_func_ # nullptr
       THEN Resolving(call, "unboxed")
       ELSE IF boxed_kernel_func_ = nullptr
            THEN Failed(call, ErrUnboxedUninitialized)
            ELSE Resolving(call, "bridge")

Enter(call) ==
  CASE call.op = "isValid" -> [call EXCEPT !.pc = "done", !.valid = isValid]
    [] call.op = "callBoxed" -> callBoxed(call)
    [] call.op = "callUnboxedOnly" -> callUnboxedOnly(call)
    [] call.op = "callUnboxed" -> callUnboxed(call)

\* An entry point that runs the deferred factory before its assertions.
Enters_CreatesFirst(t, sigs, vals, stacks, tus) ==
  /\ th[t].pc \in {"idle", "done", "failed"}
  /\ started < MaxCalls
  /\ \E op \in Ops :
       \E sig \in IF op \in UntypedOps THEN {NoSig} ELSE sigs :
         \E args \in IF op = "callBoxed" THEN stacks
                                        ELSE SeqsOfLen(vals, Len(sig.params)) :
           \E u \in IF op \in UntypedOps THEN {FALSE} ELSE tus :
             th' = [th EXCEPT ![t] =
                      Enter([Idle EXCEPT !.op = op, !.sig = sig, !.args = args,
                                         !.cudacc = u,
                                         !.hash = IF op \in UntypedOps THEN nullopt
                                                  ELSE SigHash[u][sig]])]
  /\ started' = started + 1
  /\ creatorCalls' = IF functorCreator_ # NoCreator /\ functor_ = NullFunctor
                     THEN creatorCalls + 1 ELSE creatorCalls
  /\ UNCHANGED <<conv, functor_, wrapper, allocated, released, passed, invocations>>

\* A thread enters one of the three entry points: a typed call, compiled in
\* one of the translation units tus, that declares one of sigs and passes
\* arguments from vals, or a boxed call with one of the stacks.
Enters(t, sigs, vals, stacks, tus) ==
  /\ th[t].pc \in {"idle", "done", "failed"}
  /\ started < MaxCalls
  /\ \E op \in Ops :
       \E sig \in IF op \in UntypedOps THEN {NoSig} ELSE sigs :
         \E args \in IF op = "callBoxed" THEN stacks
                                        ELSE SeqsOfLen(vals, Len(sig.params)) :
           \E u \in IF op \in UntypedOps THEN {FALSE} ELSE tus :
             th' = [th EXCEPT ![t] =
                      Enter([Idle EXCEPT !.op = op, !.sig = sig, !.args = args,
                                         !.cudacc = u,
                                         !.hash = IF op \in UntypedOps THEN nullopt
                                                  ELSE SigHash[u][sig]])]
  /\ started' = started + 1
  /\ UNCHANGED <<conv, functor_, wrapper, creatorCalls, allocated, released, passed,
                 invocations, conv>>

\* getFunctor_() running the factory at most once, whatever it returned.
GetFunctorCheck_Once(t) ==
  /\ th[t].pc = "gf_check"
  /\ th' = [th EXCEPT ![t] =
       IF functor_ = NullFunctor
       THEN IF functorCreator_ = "empty" \/ creatorCalls > 0
            THEN [@ EXCEPT !.pc = "invoke", !.recv = 0]
            ELSE [@ EXCEPT !.pc = "gf_create"]
       ELSE [@ EXCEPT !.pc = "gf_return"]]
  /\ UNCHANGED <<conv, functor_, wrapper, ghosts>>

\* getFunctor_() without the test of functor_: the factory runs on every call.
GetFunctorCheck_NoMemo(t) ==
  /\ th[t].pc = "gf_check"
  /\ th' = [th EXCEPT ![t] =
       IF functorCreator_ = NoCreator
       THEN IF functor_ = NullFunctor
            THEN [@ EXCEPT !.pc = "invoke", !.recv = NullFunctor]
            ELSE [@ EXCEPT !.pc = "gf_return"]
       ELSE [@ EXCEPT !.pc = "gf_create"]]
  /\ UNCHANGED <<conv, functor_, wrapper, ghosts>>

\* getFunctor_(), line 401-404: the test of functor_ and of functorCreator_.
GetFunctorCheck(t) ==
  /\ th[t].pc = "gf_check"
  /\ th' = [th EXCEPT ![t] =
       IF functor_ = NullFunctor
       THEN IF functorCreator_ = NoCreator
            THEN [@ EXCEPT !.pc = "invoke", !.recv = NullFunctor]
            ELSE [@ EXCEPT !.pc = "gf_create"]
       ELSE [@ EXCEPT !.pc = "gf_return"]]
  /\ UNCHANGED <<conv, functor_, wrapper, ghosts>>

\* getFunctor_(), line 405, right-hand side: functorCreator_() runs.
GetFunctorCreate(t) ==
  /\ th[t].pc = "gf_create"
  /\ IF functorCreator_ = "make_shared"
     THEN /\ allocated' = allocated + 1
          /\ th' = [th EXCEPT ![t].pc = "gf_assign", ![t].created = allocated + 1]
     ELSE /\ allocated' = allocated
          /\ th' = [th EXCEPT ![t].pc = "gf_assign", ![t].created = NullFunctor]
  /\ creatorCalls' = creatorCalls + 1
  /\ UNCHANGED <<conv, functor_, wrapper, started, released, passed, invocations>>

\* getFunctor_(), line 405, the assignment: functor_ takes the new instance
\* out of the temporary and lets go of the one it held, which nothing else owns.
GetFunctorAssign(t) ==
  /\ th[t].pc = "gf_assign"
  /\ functor_' = th[t].created
  /\ released' = IF functor_ # NullFunctor /\ functor_ # th[t].created
                 THEN released \cup {functor_}
                 ELSE released
  /\ th' = [th EXCEPT ![t].pc = "gf_return", ![t].created = NullFunctor]
  /\ UNCHANGED <<conv, wrapper, started, creatorCalls, allocated, passed, invocations>>

\* getFunctor_() handing the instance out and emptying functor_.
GetFunctorReturn_Empties(t) ==
  /\ th[t].pc = "gf_return"
  /\ th' = [th EXCEPT ![t].pc = "invoke", ![t].recv = functor_]
  /\ functor_' = NullFunctor
  /\ UNCHANGED <<conv, wrapper, ghosts>>

\* getFunctor_(), line 407: return functor_.get().
GetFunctorReturn(t) ==
  /\ th[t].pc = "gf_return"
  /\ th' = [th EXCEPT ![t].pc = "invoke", ![t].recv = functor_]
  /\ UNCHANGED <<conv, functor_, wrapper, ghosts>>

\* The entry a call of the given path goes through.
EntryOf(path) == IF path = "unboxed" THEN unboxed_kernel_func_ ELSE boxed_kernel_func_

\* The entry is called with the resolved receiver: line 118, 147, 180 or 440.
Invoke(t) ==
  /\ th[t].pc = "invoke"
  /\ th' = [th EXCEPT ![t].pc = "kernel", ![t].invoked = @ + 1,
                       ![t].entry = EntryOf(th[t].path)]
  /\ passed' = passed \cup {th[t].recv}
  /\ invocations' = invocations + 1
  /\ UNCHANGED <<conv, functor_, wrapper, started, creatorCalls, allocated, released>>

\* Whether running the entry on this receiver and these arguments is undefined:
\* a functor adapter called on a null or destroyed functor, an unboxed entry
\* cast to a signature that is not the kernel's, a stack shorter than the
\* values the kernel reads.
Undefined(entry, call) ==
  \/ /\ entry.adapter \in {"wrap_kernel_functor_boxed", "wrap_kernel_functor_unboxed"}
     /\ \/ call.recv = NullFunctor
        \/ call.recv \in released
  \/ /\ entry.adapter = "wrap_kernel_functor_unboxed"
     /\ call.sig # FunctorSig(entry.kernel)
  \/ /\ entry.adapter = "wrap_kernel_functor_boxed"
     /\ Len(call.args) < Len(FunctorSig(entry.kernel).params)
  \/ /\ entry.adapter = "boxed_function"
     /\ Len(call.args) < BoxedFunctionArity(entry.kernel)

\* The values a defined run of the entry leaves: the stack after a boxed
\* entry, the returned values after an unboxed one.
Run(entry, args) ==
  CASE entry.adapter = "boxed_function" -> BoxedFunctionCall(entry.kernel, args)
    [] entry.adapter = "wrap_kernel_functor_boxed" ->
         LET n == Len(FunctorSig(entry.kernel).params)
             k == Len(args) - n
         IN  SubSeq(args, 1, k) \o FunctorCall(entry.kernel, SubSeq(args, k + 1, Len(args)))
    [] entry.adapter = "wrap_kernel_functor_unboxed" -> FunctorCall(entry.kernel, args)

\* What an undefined run may leave.
UndefinedOutcomes(vals) == {<<>>} \cup {<<v>> : v \in vals}

\* boxAndCallBoxedFunc::call returning the top of the stack unasserted.
boxAndCallBoxedFunc_Top(call, stack) ==
  IF call.sig.ret = TVoid \/ stack = <<>>
  THEN [call EXCEPT !.pc = "done", !.stack = <<>>]
  ELSE [call EXCEPT !.pc = "done", !.stack = <<stack[Len(stack)]>>]

\* boxAndCallBoxedFunc::call without its assertions on the stack size.
boxAndCallBoxedFunc_Unasserted(call, stack) ==
  IF call.sig.ret = TVoid \/ stack = <<>>
  THEN [call EXCEPT !.pc = "done", !.stack = <<>>]
  ELSE [call EXCEPT !.pc = "done", !.stack = <<stack[1]>>]

\* boxAndCallBoxedFunc::call after the boxed function returned: the size
\* assertion and the extraction of the result.
boxAndCallBoxedFunc(call, stack) ==
  IF call.sig.ret = TVoid
  THEN IF Len(stack) = 0
       THEN [call EXCEPT !.pc = "done", !.stack = <<>>]
       ELSE [call EXCEPT !.pc = "failed", !.stack = <<>>, !.err = ErrBridgeVoidReturn]
  ELSE IF Len(stack) = 1
       THEN [call EXCEPT !.pc = "done", !.stack = <<stack[1]>>]
       ELSE [call EXCEPT !.pc = "failed", !.stack = <<>>, !.err = ErrBridgeOneReturn]

\* The end of the call once the entry left `stack`.
Finish(call, stack) ==
  IF call.path = "bridge"
  THEN boxAndCallBoxedFunc(call, stack)
  ELSE [call EXCEPT !.pc = "done", !.stack = stack]

\* The entry returns and the call returns to its caller (or fails the
\* reverse bridge's size assertion).
Returns(t, vals) ==
  /\ th[t].pc = "kernel"
  /\ LET entry == th[t].entry IN
       IF Undefined(entry, th[t])
       THEN \E out \in UndefinedOutcomes(vals) :
              th' = [th EXCEPT ![t] = Finish([th[t] EXCEPT !.ub = TRUE, !.left = out], out)]
       ELSE LET out == Run(entry, th[t].args) IN
              th' = [th EXCEPT ![t] = Finish([th[t] EXCEPT !.left = out], out)]
  /\ UNCHANGED <<conv, functor_, wrapper, ghosts>>

(***************************************************************************)
(* Spec: any number of threads call into the wrapper at the same time.     *)
(* The steps of getFunctor_() of different threads interleave, since       *)
(* nothing in the code orders them.                                        *)
(***************************************************************************)
\* The arguments of concurrent calls: what the kernels compute plays no part
\* in how the calls interleave.
ConcurrentSigs == {SigSum, SigVoid}
ConcurrentVals == {1}
ConcurrentStacks == SeqsOfLen(ConcurrentVals, 2)
ConcurrentUnits == {FALSE}

\* Threads are numbered in the order of their first call.
Start(t) ==
  /\ \A u \in Threads : u < t => th[u].pc # "idle"
  /\ Enters(t, ConcurrentSigs, ConcurrentVals, ConcurrentStacks, ConcurrentUnits)
Return(t) == Returns(t, ConcurrentVals)

Next == \E t \in Threads :
  \/ Start(t)
  \/ GetFunctorCheck(t)
  \/ GetFunctorCreate(t)
  \/ GetFunctorAssign(t)
  \/ GetFunctorReturn(t)
  \/ Invoke(t)
  \/ Return(t)

Spec == Init /\ [][Next]_vars

(***************************************************************************)
(* SeqSpec: the wrapper is used from a single thread, one call after the   *)
(* other, with arguments from ArgVals.                                     *)
(***************************************************************************)
Caller == 1

SeqStart == Enters(Caller, DeclaredSigs, ArgVals, Stacks(ArgVals), TranslationUnits)
SeqReturn == Returns(Caller, ArgVals)

SeqNext ==
  \/ SeqStart
  \/ GetFunctorCheck(Caller)
  \/ GetFunctorCreate(Caller)
  \/ GetFunctorAssign(Caller)
  \/ GetFunctorReturn(Caller)
  \/ Invoke(Caller)
  \/ SeqReturn

SeqSpec == Init /\ [][SeqNext]_vars

(***************************************************************************)
(* HashSpec: a single thread makes one call on a fresh wrapper, a typed    *)
(* call declaring a signature over every qualified form of a type.         *)
(***************************************************************************)
HashSigs == DeclaredSigs \cup QualifiedSigs
HashVals == {1}
HashStacks == SeqsOfLen(HashVals, 2)

HashStart ==
  /\ th[Caller].pc = "idle"
  /\ Enters(Caller, HashSigs, HashVals, HashStacks, TranslationUnits)
HashReturn == Returns(Caller, HashVals)

HashNext ==
  \/ HashStart
  \/ GetFunctorCheck(Caller)
  \/ GetFunctorCreate(Caller)
  \/ GetFunctorAssign(Caller)
  \/ GetFunctorReturn(Caller)
  \/ Invoke(Caller)
  \/ HashReturn

HashSpec == Init /\ [][HashNext]_vars

(***************************************************************************)
(* ConvSpec: one call of QConv2dInt8::operator() with arguments from       *)
(* ConvCalls.  The wrapper and the threads of the dispatcher stay as       *)
(* constructed.                                                            *)
(***************************************************************************)
ConvRaise(message) == conv' = [conv EXCEPT !.pc = "done", !.err = message]

\* The call and the checks on the build, the processor and the arguments.
QConvEnter ==
  /\ conv.pc = "idle"
  /\ \E call \in ConvCalls :
       IF ~call.USE_FBGEMM THEN
         conv' = [conv EXCEPT !.pc = "done", !.call = call, !.err = ErrNoFbgemm]
       ELSE IF ~call.fbgemmSupportedCPU THEN
         conv' = [conv EXCEPT !.pc = "done", !.call = call, !.err = ErrCpu]
       ELSE IF call.ndimension # 4 THEN
         conv' = [conv EXCEPT !.pc = "done", !.call = call, !.err = ErrNdimension]
       ELSE IF ~(call.dilation[1] = 1 /\ call.dilation[2] = 1) THEN
         conv' = [conv EXCEPT !.pc = "done", !.call = call, !.err = ErrDilation]
       ELSE IF call.C # InputChannels THEN
         conv' = [conv EXCEPT !.pc = "done", !.call = call, !.err = ErrChannels]
       ELSE
         conv' = [conv EXCEPT !.pc = "bias", !.call = call]
  /\ UNCHANGED <<functor_, wrapper, th, ghosts>>

\* The bias of the packed weight is quantized to the scheme of the weight.
QConvBias ==
  /\ conv.pc = "bias"
  /\ IF conv.call.bias # nullopt THEN
       IF conv.call.q_scheme \notin {kPerTensorAffine, kPerChannelAffine} THEN
         ConvRaise(ErrScheme)
       ELSE IF Len(conv.call.bias) # 1 THEN
         ConvRaise(ErrBiasVector)
       ELSE IF conv.call.bias[1] # OutputChannels THEN
         ConvRaise(ErrBiasElements)
       ELSE
         conv' = [conv EXCEPT !.pc = "shape", !.bias_ptr = TRUE]
     ELSE
       conv' = [conv EXCEPT !.pc = "shape"]
  /\ UNCHANGED <<functor_, wrapper, th, ghosts>>

\* The output multipliers and the shape of the output.
QConvShape ==
  /\ conv.pc = "shape"
  /\ IF conv.call.w_scale # conv.call.w_zp THEN
       ConvRaise(ErrScales)
     ELSE
       LET outShape == convOutputShape(BatchSize, OutputChannels, conv.call.H, conv.call.W, conv.call.kernel, conv.call.stride, conv.call.padding, conv.call.dilation)
       IN IF \A i \in 1..Len(outShape) : outShape[i] > 0
          THEN conv' = [conv EXCEPT !.pc = "conv", !.outShape = outShape]
          ELSE conv' = [conv EXCEPT !.pc = "done", !.outShape = outShape, !.err = ErrOutputShape]
  /\ UNCHANGED <<functor_, wrapper, th, ghosts>>

\* The output is allocated, fbgemmConv fills it for the two affine schemes,
\* and the output is returned.
QConvRun ==
  /\ conv.pc = "conv"
  /\ conv' = [conv EXCEPT !.pc = "done", !.output = conv.outShape,
                          !.convolved = conv.call.q_scheme \in {kPerTensorAffine, kPerChannelAffine}]
  /\ UNCHANGED <<functor_, wrapper, th, ghosts>>

ConvInit ==
  /\ functorCreator_ = KernelFunctionDefault.functorCreator_
  /\ functor_ = KernelFunctionDefault.functor_
  /\ boxed_kernel_func_ = KernelFunctionDefault.boxed_kernel_func_
  /\ unboxed_kernel_func_ = KernelFunctionDefault.unboxed_kernel_func_
  /\ signature_hash_ = KernelFunctionDefault.signature_hash_
  /\ th = [t \in Threads |-> Idle]
  /\ started = 0
  /\ creatorCalls = 0
  /\ allocated = 0
  /\ released = {}
  /\ passed = {}
  /\ invocations = 0
  /\ conv = ConvIdle

ConvNext ==
  \/ QConvEnter
  \/ QConvBias
  \/ QConvShape
  \/ QConvRun

ConvSpec == ConvInit /\ [][ConvNext]_vars

(***************************************************************************)
(* The claims.                                                             *)
(***************************************************************************)
\* A call that has reached the kernel entry.
Entered(c) == c.invoked = 1

\* C1: for a wrapper built by the deferred-factory form whose factory makes a
\* functor, the factory is invoked exactly once however the first calls of
\* several threads interleave: never twice, and once as soon as one call has
\* reached the kernel entry.
C1_FactoryInvokedExactlyOnce ==
  functorCreator_ = "make_shared" =>
    /\ creatorCalls <= 1
    /\ invocations >= 1 => creatorCalls = 1

\* C2: all concurrent calls on one deferred-factory wrapper hand the same
\* functor instance to the kernel entry: no two calls receive different ones.
C2_SameInstanceForAllCalls ==
  functorCreator_ = "make_shared" => Cardinality(passed) <= 1

C4_CallUnboxedPath ==
  \A t \in Threads :
    LET c == th[t] IN
    c.op = "callUnboxed" =>
      /\ unboxed_kernel_func_ # nullptr =>
           /\ c.path \in {"none", "unboxed"}
           /\ SignatureAccepted(c) => c.path = "unboxed" /\ c.pc # "failed"
           /\ c.path = "none" => c.pc = "failed" /\ c.err = ErrWrongTypes /\ ~Entered(c)
           /\ Entered(c) => c.entry = unboxed_kernel_func_
      /\ unboxed_kernel_func_ = nullptr /\ boxed_kernel_func_ # nullptr =>
           /\ c.path = "bridge"
           /\ Entered(c) => c.entry = boxed_kernel_func_
      /\ unboxed_kernel_func_ = nullptr /\ boxed_kernel_func_ = nullptr =>
           /\ c.pc = "failed"
           /\ c.err = ErrUnboxedUninitialized
           /\ c.path = "none"
           /\ ~Entered(c)

\* callUnboxed on a wrapper with both entries returned through the unboxed one.
C4_Witness ==
  /\ unboxed_kernel_func_ # nullptr
  /\ boxed_kernel_func_ # nullptr
  /\ th[Caller].op = "callUnboxed"
  /\ th[Caller].pc = "done"
  /\ th[Caller].entry = unboxed_kernel_func_

\* C5: on a wrapper built by makeFromBoxedFunction, a callUnboxed that declares a
\* value return and passes enough arguments for the boxed function runs that
\* function on the stack a1..aN, in argument order, and returns the one value
\* the function leaves (Double: callUnboxed(a) returns 2 * a; Pack:
\* callUnboxed(a, b) returns 10 * a + b).
C5_ReverseBridgeResult ==
  \A t \in Threads :
    LET c == th[t]
        f == boxed_kernel_func_.kernel
    IN  /\ BuiltBy({"makeFromBoxedFunction"})
        /\ c.op = "callUnboxed"
        /\ c.sig.ret # TVoid
        /\ c.pc = "done"
        /\ ~c.ub
        => /\ c.entry = BoxedFunctionPtr(f)
           /\ BoxedFunctionCall(f, c.args) = c.stack
           /\ Len(c.stack) = 1
           /\ f = "Double" => c.args \in SeqsOfLen(ArgVals, 1) /\ c.stack[1] = 2 * c.args[1]
           /\ f = "Pack" => c.args \in SeqsOfLen(ArgVals, 2)
                            /\ c.stack[1] = 10 * c.args[1] + c.args[2]

\* callUnboxed<int, int>(2) on the boxed function Double returned 4.
C5_Witness ==
  /\ boxed_kernel_func_ = BoxedFunctionPtr("Double")
  /\ unboxed_kernel_func_ = nullptr
  /\ th[Caller].op = "callUnboxed"
  /\ th[Caller].sig = SigUnary
  /\ th[Caller].args = <<2>>
  /\ th[Caller].pc = "done"
  /\ th[Caller].stack = <<4>>

\* C6: callUnboxedOnly on a wrapper with no unboxed entry (default-constructed
\* or built by makeFromBoxedFunction) fails fatally and never calls the boxed
\* entry.
C6_CallUnboxedOnlyNeedsUnboxed ==
  \A t \in Threads :
    LET c == th[t] IN
    c.op = "callUnboxedOnly" /\ unboxed_kernel_func_ = nullptr =>
      /\ BuiltBy({"KernelFunction", "makeFromBoxedFunction"})
      /\ c.pc = "failed"
      /\ c.err = ErrNoUnboxed
      /\ c.path = "none"
      /\ ~Entered(c)

\* callUnboxedOnly failed on a wrapper built by makeFromBoxedFunction.
C6_Witness ==
  /\ BuiltBy({"makeFromBoxedFunction"})
  /\ th[Caller].op = "callUnboxedOnly"
  /\ th[Caller].pc = "failed"

\* C7: on a wrapper built by makeFromUnboxedOnlyFunctor or
\* makeFromUnboxedOnlyFunction neither callBoxed nor callUnboxed succeeds.
C7_UnboxedOnlyViaCallUnboxedOnly ==
  \A t \in Threads :
    BuiltBy(UnboxedOnlyFactories) /\ th[t].op \in {"callBoxed", "callUnboxed"} =>
      th[t].pc # "done" /\ ~Entered(th[t])

\* C8: callBoxed fails fatally whenever the boxed entry is absent, with the
\* "uninitialized" diagnostic when the unboxed entry is absent too and with a
\* different diagnostic when only the unboxed entry exists; with a boxed entry
\* it does not fail, and calls that entry once, with the functor the wrapper
\* resolves to and the caller's stack.
C8_CallBoxed ==
  \A t \in Threads :
    LET c == th[t] IN
    c.op = "callBoxed" =>
      /\ boxed_kernel_func_ = nullptr =>
           /\ c.pc = "failed"
           /\ ~Entered(c)
           /\ unboxed_kernel_func_ = nullptr => c.err = ErrBoxedUninitialized
           /\ unboxed_kernel_func_ # nullptr => c.err = ErrBoxedUnsupported
           /\ ErrBoxedUninitialized # ErrBoxedUnsupported
      /\ boxed_kernel_func_ # nullptr =>
           /\ c.pc # "failed"
           /\ c.path = "boxed"
           /\ c.invoked <= 1
           /\ c.pc \in {"kernel", "done"} <=> Entered(c)
           /\ Entered(c) => c.entry = boxed_kernel_func_ /\ c.recv = functor_
           /\ c.pc = "done" /\ ~c.ub => c.stack = Run(boxed_kernel_func_, c.args)

\* callBoxed failed on a wrapper that has only an unboxed entry.
C8_Witness ==
  /\ boxed_kernel_func_ = nullptr
  /\ unboxed_kernel_func_ # nullptr
  /\ th[Caller].op = "callBoxed"
  /\ th[Caller].pc = "failed"
  /\ th[Caller].err = ErrBoxedUnsupported

\* The signature the wrapper's functor was constructed with.
ConstructionSig == FunctorSig(unboxed_kernel_func_.kernel)

TypedFactories ==
  EagerFactories \cup UnboxedOnlyFactories \cup {"makeFromUnboxedFunctorCreator"}

\* C9 as stated: a wrapper built by a typed factory rejects, before the kernel
\* is called, every callUnboxed and callUnboxedOnly whose declared signature
\* differs from the signature it was constructed with.
C9_RejectsEveryOtherSignature ==
  \A t \in Threads :
    LET c == th[t] IN
    /\ BuiltBy(TypedFactories)
    /\ c.op \in {"callUnboxed", "callUnboxedOnly"}
    /\ c.sig # ConstructionSig
    => c.pc = "failed" /\ c.err = ErrWrongTypes /\ ~Entered(c)

\* C9 as amended: a wrapper built by a typed factory rejects, before the
\* kernel is called, every callUnboxed and callUnboxedOnly whose declared
\* signature hashes to another value than the signature it was constructed
\* with; a declared signature that differs but has the same hash is let
\* through.
C9_RejectsOtherSignatureHash ==
  \A t \in Threads :
    LET c == th[t] IN
    /\ BuiltBy(TypedFactories)
    /\ c.op \in {"callUnboxed", "callUnboxedOnly"}
    => /\ \E u \in TranslationUnits : signature_hash_ = SigHash[u][ConstructionSig]
       /\ SigHash[c.cudacc][c.sig] # signature_hash_ =>
            c.pc = "failed" /\ c.err = ErrWrongTypes /\ ~Entered(c) /\ c.path = "none"

\* callUnboxedOnly<int, int>(a) was rejected by a wrapper of the functor Sum.
C9_Witness ==
  /\ BuiltBy(TypedFactories)
  /\ unboxed_kernel_func_ = wrap_kernel_functor_unboxed("Sum")
  /\ th[Caller].op = "callUnboxedOnly"
  /\ th[Caller].sig = SigUnary
  /\ th[Caller].pc = "failed"
  /\ th[Caller].err = ErrWrongTypes

\* C10: a wrapper built by makeFromBoxedFunction has no signature hash, and a
\* callUnboxed on it never fails the signature assertion: whatever return and
\* argument types it declares, it goes on to the reverse bridge.
C10_BoxedFunctionUnchecked ==
  \A t \in Threads :
    LET c == th[t] IN
    BuiltBy({"makeFromBoxedFunction"}) =>
      /\ signature_hash_ = nullopt
      /\ c.op = "callUnboxed" => c.err # ErrWrongTypes /\ c.path = "bridge"

\* Every declared signature of the model got through to the boxed function.
C10_Witness ==
  /\ BuiltBy({"makeFromBoxedFunction"})
  /\ th[Caller].op = "callUnboxed"
  /\ th[Caller].sig = SigAddTo
  /\ Entered(th[Caller])

\* C11: the signature hash is the same wherever the executable computes it,
\* so on a wrapper built by a typed factory a callUnboxed or callUnboxedOnly
\* that declares exactly the signature the wrapper was constructed with
\* computes the stored hash again and never fails the signature assertion.
C11_ExactSignatureAccepted ==
  \A t \in Threads :
    LET c == th[t] IN
    /\ BuiltBy(TypedFactories)
    /\ c.op \in {"callUnboxed", "callUnboxedOnly"}
    /\ c.sig = ConstructionSig
    => /\ SigHash[c.cudacc][c.sig] = signature_hash_
       /\ c.err # ErrWrongTypes

\* C12: a callUnboxed that went through the reverse bridge returns only if the
\* boxed function left exactly one value on the stack (declared return type a
\* value) or no value (declared return type void); with any other stack size
\* it fails fatally, with the diagnostic of the value or of the void bridge.
C12_BridgeChecksStackSize ==
  \A t \in Threads :
    LET c == th[t]
        expected == IF c.sig.ret = TVoid THEN 0 ELSE 1
    IN  c.path = "bridge" /\ c.pc \in {"done", "failed"} =>
          /\ c.op = "callUnboxed"
          /\ Entered(c)
          /\ c.entry = boxed_kernel_func_
          /\ ~c.ub => c.left = BoxedFunctionCall(c.entry.kernel, c.args)
          /\ c.pc = "done" <=> Len(c.left) = expected
          /\ c.pc = "done" => c.stack = c.left /\ c.err = NoError
          /\ c.pc = "failed" =>
               c.err = IF c.sig.ret = TVoid THEN ErrBridgeVoidReturn ELSE ErrBridgeOneReturn

\* Stray left two values where callUnboxed<int, int> expected one: the call failed.
C12_Witness ==
  /\ boxed_kernel_func_ = BoxedFunctionPtr("Stray")
  /\ th[Caller].path = "bridge"
  /\ th[Caller].sig = SigUnary
  /\ Len(th[Caller].left) = 2
  /\ th[Caller].pc = "failed"
  /\ th[Caller].err = ErrBridgeOneReturn

\* C13: isValid() returns true exactly when the boxed entry or the unboxed
\* entry is present: false on a default-constructed wrapper, true on the
\* wrapper of every factory, whatever the functor, the deferred factory and
\* the signature hash are.
C13_IsValidIffSomeEntry ==
  /\ isValid <=> ~(boxed_kernel_func_ = nullptr /\ unboxed_kernel_func_ = nullptr)
  /\ isValid <=> ~BuiltBy({"KernelFunction"})
  /\ \A t \in Threads :
       LET c == th[t] IN
       c.op = "isValid" =>
         /\ c.pc = "done"
         /\ c.valid <=> (boxed_kernel_func_ # nullptr \/ unboxed_kernel_func_ # nullptr)
         /\ ~Entered(c)

\* isValid() returned true on a wrapper with only an unboxed entry, an empty
\* functor and no deferred factory.
C13_Witness ==
  /\ boxed_kernel_func_ = nullptr
  /\ unboxed_kernel_func_ # nullptr
  /\ functor_ = NullFunctor
  /\ functorCreator_ = NoCreator
  /\ th[Caller].op = "isValid"
  /\ th[Caller].pc = "done"
  /\ th[Caller].valid

\* C14: no step of isValid, callBoxed, callUnboxed or callUnboxedOnly changes
\* the boxed entry, the unboxed entry, the signature hash or the deferred
\* factory, and a step that changes the functor changes it from empty to
\* populated.
C14_OnlyFunctorChanges ==
  [][/\ boxed_kernel_func_' = boxed_kernel_func_
     /\ unboxed_kernel_func_' = unboxed_kernel_func_
     /\ signature_hash_' = signature_hash_
     /\ functorCreator_' = functorCreator_
     /\ functor_' # functor_ => functor_ = NullFunctor /\ functor_' # NullFunctor]_vars

\* C15: on a wrapper with both entries, a callBoxed on a stack whose top N
\* values are the kernel's arguments a1..aN removes exactly those N values
\* and puts the kernel's result in their place (nothing for a void kernel),
\* leaving the values below untouched, and a callUnboxed(a1..aN) returns that
\* same result: for the kernel Sum, a1 + a2 either way.
C15_BoxedEqualsUnboxed ==
  \A t \in Threads :
    LET c == th[t]
        F == unboxed_kernel_func_.kernel
        N == Len(FunctorSig(F).params)
        below == Len(c.args) - N
    IN  /\ boxed_kernel_func_ # nullptr
        /\ unboxed_kernel_func_ # nullptr
        /\ c.pc = "done"
        /\ ~c.ub
        => /\ c.op = "callBoxed" =>
                /\ below >= 0
                /\ c.stack = SubSeq(c.args, 1, below)
                               \o FunctorCall(F, SubSeq(c.args, below + 1, Len(c.args)))
                /\ Len(c.stack) = below + (IF FunctorSig(F).ret = TVoid THEN 0 ELSE 1)
                /\ F = "Sum" => Last(c.stack) = c.args[below + 1] + c.args[below + 2]
           /\ c.op = "callUnboxed" =>
                /\ c.sig = FunctorSig(F)
                /\ c.stack = FunctorCall(F, c.args)
                /\ F = "Sum" => c.stack = <<c.args[1] + c.args[2]>>

\* callBoxed on the stack [1, 2, 1] of a Sum wrapper left [1, 3].
C15_Witness ==
  /\ boxed_kernel_func_ = wrap_kernel_functor_boxed("Sum")
  /\ unboxed_kernel_func_ = wrap_kernel_functor_unboxed("Sum")
  /\ th[Caller].op = "callBoxed"
  /\ th[Caller].args = <<1, 2, 1>>
  /\ th[Caller].pc = "done"
  /\ th[Caller].stack = <<1, 3>>

\* A call that failed because the wrapper lacks the entry the entry point needs.
LacksEntry(c) == c.pc = "failed" /\ c.path = "none" /\ c.err # ErrWrongTypes

\* The diagnostic an entry point raises on an initialized wrapper that does
\* not support it.
UnsupportedDiagnostic(op) ==
  CASE op = "callBoxed" -> ErrBoxedUnsupported
    [] op = "callUnboxedOnly" -> ErrNoUnboxed
    [] op = "callUnboxed" -> NoError

\* C16 as stated: for each entry point, a call that fails on an initialized
\* wrapper for lack of the entry raises that entry point's "unsupported"
\* diagnostic, and a call that fails on an uninitialized wrapper raises
\* another one.
C16_DiagnosticsDiffer ==
  \A t \in Threads :
    LET c == th[t] IN
    LacksEntry(c) =>
      /\ isValid => c.err = UnsupportedDiagnostic(c.op)
      /\ ~isValid => c.err # UnsupportedDiagnostic(c.op)

\* C16 as amended: callBoxed raises one diagnostic on an uninitialized wrapper
\* and another on a wrapper that has only an unboxed entry; callUnboxedOnly
\* raises the same diagnostic on an uninitialized wrapper and on a wrapper
\* that has only a boxed entry; callUnboxed fails for lack of an entry only
\* on an uninitialized wrapper.
C16_DiagnosticsByEntryPoint ==
  \A t \in Threads :
    LET c == th[t] IN
    LacksEntry(c) =>
      /\ c.op = "callBoxed" =>
           /\ c.err = IF isValid THEN ErrBoxedUnsupported ELSE ErrBoxedUninitialized
           /\ ErrBoxedUnsupported # ErrBoxedUninitialized
      /\ c.op = "callUnboxedOnly" => c.err = ErrNoUnboxed
      /\ c.op = "callUnboxed" => ~isValid /\ c.err = ErrUnboxedUninitialized
      /\ c.op # "isValid"

\* callUnboxedOnly failed on a default-constructed wrapper with the diagnostic
\* it also raises on a wrapper that has a boxed entry.
C16_Witness ==
  /\ BuiltBy({"KernelFunction"})
  /\ th[Caller].op = "callUnboxedOnly"
  /\ LacksEntry(th[Caller])
  /\ th[Caller].err = UnsupportedDiagnostic("callUnboxedOnly")

\* The type list a signature is hashed as: the return type, then the parameters.
TypeListOf(sig) == <<sig.ret>> \o sig.params
Types == QualifiedInts \cup {TVoid}
Positions == UNION {DOMAIN TypeListOf(g) : g \in HashSigs}
\* The per-type hashes, and 1000000 * i * hashType(T) for each position i,
\* computed once.
TypeHash == [ty \in Types |-> hashType(ty)]
WeightedTerm ==
  [i \in Positions |-> [ty \in Types |-> MulU64(U64(1000000 * i), TypeHash[ty])]]
\* The sum of the first n weighted terms of a type list, modulo 2^64.
RECURSIVE WeightedSum(_, _)
WeightedSum(typelist, n) ==
  IF n = 0 THEN U64(0)
  ELSE AddU64(WeightedSum(typelist, n - 1), WeightedTerm[n][typelist[n]])

\* A typed call compiled without __CUDACC__: one that hashes its type list.
HashingCall(c) == c.op \in {"callUnboxed", "callUnboxedOnly"} /\ ~c.cudacc

\* C17: the hash a typed call computes for its type list T_1..T_n (return
\* type first, then the parameters in order) is the sum over the positions
\* i = 1..n of 1000000 * i * hashType(T_i) modulo 2^64, and the empty type
\* list hashes to 0.
C17_HashIsWeightedSum ==
  /\ hashTypeList(<<>>) = U64(0)
  /\ \A t \in Threads :
       LET c == th[t] IN
       HashingCall(c) =>
         c.hash = WeightedSum(TypeListOf(c.sig), Len(TypeListOf(c.sig)))

\* callUnboxed<const volatile int&, int&&> has hashed its two-element type list.
C17_Witness ==
  /\ th[Caller].op = "callUnboxed"
  /\ HashingCall(th[Caller])
  /\ th[Caller].sig = Sig(Ty("int", "lvalue", TRUE, TRUE), <<TIntRRef>>)
  /\ th[Caller].hash # U64(0)
  /\ th[Caller].hash # nullopt

\* The types of a hashing call's type list, two at a time.
HashedPairs(c) ==
  LET typelist == TypeListOf(c.sig) IN
  {<<typelist[i], typelist[j]>> : i \in DOMAIN typelist, j \in DOMAIN typelist}

Volatile(base) == Ty(base, "none", FALSE, TRUE)
ConstRRef(base) == Ty(base, "rvalue", TRUE, FALSE)

\* C18 as stated: two types of one base type that differ in their reference,
\* const or volatile qualifiers have different per-type hashes.
C18_QualifiersDistinguished ==
  \A t \in Threads :
    HashingCall(th[t]) =>
      \A p \in HashedPairs(th[t]) :
        p[1].base = p[2].base /\ p[1] # p[2] => TypeHash[p[1]] # TypeHash[p[2]]

\* C18 as amended: the per-type hash adds 1000 for an lvalue reference, 5000
\* for an rvalue reference, 10000 for const and 15000 for volatile to the
\* hash of the base type, and two types of one base type that differ in
\* these qualifiers have different per-type hashes unless one is volatile T
\* and the other const T&&, which both add 15000.
C18_QualifiersDistinguishedButOne ==
  \A t \in Threads :
    HashingCall(th[t]) =>
      \A p \in HashedPairs(th[t]) :
        /\ TypeHash[p[1]] =
             AddU64(TypeHash[Ty(p[1].base, "none", FALSE, FALSE)],
                    U64(1000 * BoolInt(p[1].ref = "lvalue")
                        + 5000 * BoolInt(p[1].ref = "rvalue")
                        + 10000 * BoolInt(p[1].const)
                        + 15000 * BoolInt(p[1].volatile)))
        /\ p[1].base = p[2].base /\ p[1] # p[2] =>
             (TypeHash[p[1]] = TypeHash[p[2]]
                <=> {p[1], p[2]} = {Volatile(p[1].base), ConstRRef(p[1].base)})

\* callUnboxedOnly<volatile int, const int&&> has hashed its type list.
C18_Witness ==
  /\ th[Caller].op = "callUnboxedOnly"
  /\ HashingCall(th[Caller])
  /\ th[Caller].sig = Sig(Volatile("int"), <<ConstRRef("int")>>)
  /\ th[Caller].hash # nullopt

\* C19: on the wrapper of every factory, an unboxed entry comes with a functor
\* or a deferred factory (possibly both), and the unboxed entry is never
\* called with a null functor.
C19_UnboxedHasReceiver ==
  /\ unboxed_kernel_func_ # nullptr =>
       functor_ # NullFunctor \/ functorCreator_ # NoCreator
  /\ \A t \in Threads :
       Entered(th[t]) /\ th[t].entry = unboxed_kernel_func_ =>
         th[t].recv # NullFunctor

\* C20: while a call is inside the kernel entry, the functor instance it
\* passed to the entry has not been released by the wrapper.
C20_InstanceOwnedDuringCall ==
  \A t \in Threads :
    th[t].pc = "kernel" => th[t].recv \notin released

\* A call that failed one of the entry point's assertions: the entry it needs
\* is absent, or the signature hash differs.
FailedCheck(c) == c.pc = "failed" /\ c.path = "none"

\* C21: the step in which a call fails for an absent entry or a differing
\* signature hash is the call's only step, and it leaves the wrapper as it
\* was: the five members keep their values, the deferred factory is not
\* invoked and no functor is created or released.
C21_FailedCallChangesNothing ==
  [][\A t \in Threads :
       th'[t] # th[t] /\ FailedCheck(th'[t]) =>
         /\ th[t].pc \in {"idle", "done", "failed"}
         /\ started' = started + 1
         /\ ~Entered(th'[t])
         /\ functor_' = functor_
         /\ functorCreator_' = functorCreator_
         /\ boxed_kernel_func_' = boxed_kernel_func_
         /\ unboxed_kernel_func_' = unboxed_kernel_func_
         /\ signature_hash_' = signature_hash_
         /\ creatorCalls' = creatorCalls
         /\ allocated' = allocated
         /\ released' = released
         /\ invocations' = invocations]_vars

\* callUnboxed failed the signature assertion on a deferred wrapper whose
\* factory has not run and whose functor is still empty.
C21_Witness ==
  /\ functorCreator_ = "make_shared"
  /\ functor_ = NullFunctor
  /\ creatorCalls = 0
  /\ FailedCheck(th[Caller])
  /\ th[Caller].op = "callUnboxed"
  /\ th[Caller].err = ErrWrongTypes

\* C22: the wrapper has a signature hash exactly when it has an unboxed
\* entry, so a typed call that takes the reverse bridge, which it does only
\* without an unboxed entry, finds no hash to be checked against.
C22_HashIffUnboxedEntry ==
  /\ signature_hash_ # nullopt <=> unboxed_kernel_func_ # nullptr
  /\ \A t \in Threads :
       th[t].path = "bridge" =>
         /\ signature_hash_ = nullopt
         /\ unboxed_kernel_func_ = nullptr
         /\ th[t].err # ErrWrongTypes

\* callUnboxed<int, int, int&>, compiled with __CUDACC__, went through the
\* reverse bridge of a wrapper without signature hash.
C22_Witness ==
  /\ signature_hash_ = nullopt
  /\ boxed_kernel_func_ # nullptr
  /\ th[Caller].path = "bridge"
  /\ th[Caller].sig = SigSwapped
  /\ th[Caller].cudacc
  /\ th[Caller].pc = "done"

\* The functor is populated and no call is between the test of functor_ and
\* the assignment to it: every call that found the functor empty is through.
Settled ==
  /\ functor_ # NullFunctor
  /\ \A t \in Threads : th[t].pc \notin {"gf_create", "gf_assign"}

\* C23: once the functor is populated and every call that found it empty is
\* through with creating it, no step of any thread changes the functor or
\* invokes the factory, this stays so, and every call that resolves the
\* functor from then on gets that same instance.
C23_FunctorStableOnceSettled ==
  [][Settled =>
       /\ functor_' = functor_
       /\ creatorCalls' = creatorCalls
       /\ allocated' = allocated
       /\ released' = released
       /\ Settled'
       /\ \A t \in Threads :
            th[t].pc = "gf_return" /\ th'[t].pc = "invoke" => th'[t].recv = functor_]_vars

\* Two threads have each completed a call on a deferred wrapper, the factory
\* ran once and both calls got the one instance.
C23_Witness ==
  /\ functorCreator_ = "make_shared"
  /\ Settled
  /\ creatorCalls = 1
  /\ \A t \in {1, 2} : th[t].pc = "done" /\ th[t].recv = functor_
  /\ passed = {functor_}

\* C24: on a deferred wrapper whose factory returns an empty instance, the
\* functor stays empty, every call that gets to the kernel entry passes it a
\* null receiver, and the factory is invoked once by each such call: as many
\* times as the kernel entry was called, plus one while a call is between
\* the two.
C24_NullFactoryRunsEveryCall ==
  functorCreator_ = "returns_null" =>
    /\ functor_ = NullFunctor
    /\ allocated = 0
    /\ \A t \in Threads : Entered(th[t]) => th[t].recv = NullFunctor
    /\ creatorCalls =
         invocations
         + Cardinality({t \in Threads : th[t].pc \in {"gf_assign", "gf_return", "invoke"}})

\* Two calls on such a wrapper have run the factory twice.
C24_Witness ==
  /\ functorCreator_ = "returns_null"
  /\ functor_ = NullFunctor
  /\ creatorCalls = 2
  /\ invocations = 2
  /\ th[Caller].pc = "done"
  /\ th[Caller].recv = NullFunctor


\* C25: convOutputShape returns [N, K, H_out, W_out] with
\* H_out = floor((H + 2*padding[0] - dilation[0]*(kernel[0]-1) - 1) / stride[0]) + 1
\* and W_out likewise, the division being the mathematical floor division,
\* so that a call whose true output height or width is not greater than 0
\* is rejected and returns no output.
C25_RejectsNonPositiveOutput ==
  (conv.pc = "done" /\ conv.outShape # <<>>) =>
    LET c == conv.call
        H_true == ((c.H + 2 * c.padding[1] - c.dilation[1] * (c.kernel[1] - 1) - 1) \div c.stride[1]) + 1
        W_true == ((c.W + 2 * c.padding[2] - c.dilation[2] * (c.kernel[2] - 1) - 1) \div c.stride[2]) + 1
    IN /\ conv.outShape = <<BatchSize, OutputChannels, H_true, W_true>>
       /\ (H_true <= 0 \/ W_true <= 0) => (conv.err = ErrOutputShape /\ conv.output = NoTensor)

\* C26: a call whose packed weight has a quantization scheme that is neither
\* per-tensor affine nor per-channel affine is rejected and returns no
\* output, with or without a bias; when its other arguments are well formed
\* and its output shape is accepted, the error is "Unsupported quantization
\* scheme."; an output that is returned has been filled by a convolution.
C26_UnsupportedSchemeRejected ==
  conv.pc = "done" =>
    /\ conv.call.q_scheme \notin {kPerTensorAffine, kPerChannelAffine} =>
         /\ conv.err # NoError
         /\ conv.output = NoTensor
         /\ (conv.call \in WellFormedCalls /\ conv.err # ErrOutputShape) => conv.err = ErrScheme
    /\ conv.output # NoTensor => conv.convolved

=============================================================================
